---- MODULE Spec2Model ----
(***************************************************************************)
(* State-machine model of src/shims.py: one DumbSwitchShim (its            *)
(* constructor and its run() loop), the retry helper exp_backoff, the      *)
(* LoggingContext bracket and the hub as a nondeterministic environment    *)
(* that answers every GET / PUT with any of the answers the code           *)
(* distinguishes.                                                          *)
(***************************************************************************)
EXTENDS Integers, Sequences, FiniteSets, TLC

(* ---- bounds of the model ---------------------------------------------- *)
NumLights == 2
MaxTriggers == 2
MaxTargets == 2
NumSwitches == 2
NumTasks == 2

(* ---- program constants ------------------------------------------------ *)
Tries == 3
SettleDelay == 30
OnPollDelay == 30
OffPollDelay == 5
INFO == 20
DEBUG == 10
NOTSET == 0
NoLevel == -1

Lights == 1..NumLights

SeqsUpTo(S, n) == UNION {[1..k -> S] : k \in 0..n}

(* Answers of GET /lights/{id} as _get_light_reachable tells them apart:   *)
(*   error       transport error or non-2xx (raise_for_status raises)      *)
(*   nostate     body without "state": the default {"reachable"} is a set, *)
(*               .get on it raises AttributeError                          *)
(*   reachable   state.reachable is true                                   *)
(*   unreachable state.reachable is false                                  *)
(*   nofield     state without "reachable": .get returns None              *)
ReachableResponses == {"error", "nostate", "reachable", "unreachable", "nofield"}

(* Answers of PUT /lights/{id}/state *)
PutResponses == {"ok", "error"}

(* Answers of the verification GET in toggle_light: error, state.on true,  *)
(* state.on false, or no state.on at all (None).                           *)
VerifyResponses == {"error", "on", "off", "missing"}

VARIABLES
    trigger_light_ids,  \* self.trigger_light_ids
    target_light_ids,   \* self.target_light_ids
    on,                 \* self.on, the inferred switch position
    level,              \* logging.root.level
    old_level,          \* LoggingContext.old_level (NOTSET outside a scope)
    pc,                 \* position of the program
    constructed,        \* __init__ has returned
    t,                  \* lights_reachable: index of the trigger being scanned
    queries,            \* requests of the lights_reachable call, until its value is used
    any_reachable,      \* run(): local any_reachable
    l,                  \* run(): index of the target light of the for loop
    i,                  \* exp_backoff: loop variable i
    arg_on,             \* toggle_light: parameter on (FALSE outside a transition)
    backoffs,           \* sleeps of the current exp_backoff call
    put_resp,           \* current toggle_light call: answer of the PUT
    settled,            \* current toggle_light call: time.sleep(30) done
    get_resp,           \* current toggle_light call: answer of the GET
    log,                \* toggle_light calls of the current iteration
    start_on,           \* self.on at the top of the current iteration
    poll_wait,          \* the sleep at the top of the current iteration
    ended,              \* the current iteration has reached its end
    prev,               \* start state and probe of the iteration before the
                        \* current one, kept until the current one writes
    probes,             \* lights_reachable calls returned in the current iteration
    req,                \* the last hub request of the current iteration
    switch,             \* __main__: position of the for loop over dumbSwitches
    ctx,                \* LoggingContext objects of the tasks of ScopeSpec
    handlers,           \* logging.root.handlers
    closed              \* handlers whose close() was called

vars == <<trigger_light_ids, target_light_ids, on, level, old_level, pc,
          constructed, t, queries, any_reachable, l, i, arg_on, backoffs,
          put_resp, settled, get_resp, log, start_on, poll_wait, ended, prev,
          probes, req, switch, ctx, handlers, closed>>

config == <<trigger_light_ids, target_light_ids>>
probeVars == <<t, queries>>
logVars == <<level, old_level>>
callVars == <<put_resp, settled, get_resp>>
iterVars == <<start_on, poll_wait, ended, prev>>
extVars == <<switch, ctx, handlers, closed>>

(* ---- _get_light_reachable --------------------------------------------- *)
Raises(resp) == resp \in {"error", "nostate"}

Truthy(resp) == resp = "reachable"

(* variant: __init__ starts from a default instead of the probe's value *)
Return_default(v) ==
    IF ~constructed
    THEN /\ on' = FALSE
         /\ constructed' = TRUE
         /\ pc' = "run"
         /\ UNCHANGED <<any_reachable, probes>>
    ELSE /\ any_reachable' = v
         /\ pc' = "compare"
         /\ probes' = probes + 1
         /\ UNCHANGED <<on, constructed>>

(* ---- return of lights_reachable to its caller -------------------------- *)
(* __init__ stores the value in self.on, run() in any_reachable.           *)
Return(v) ==
    IF ~constructed
    THEN /\ on' = v
         /\ constructed' = TRUE
         /\ pc' = "run"
         /\ UNCHANGED <<any_reachable, probes>>
    ELSE /\ any_reachable' = v
         /\ pc' = "compare"
         /\ probes' = probes + 1
         /\ UNCHANGED <<on, constructed>>

(* variant: an error skips the trigger (continue) instead of ending the scan *)
lights_reachable_continue ==
    /\ pc = "lights_reachable"
    /\ IF t > Len(trigger_light_ids)
       THEN /\ Return(FALSE)
            /\ UNCHANGED <<probeVars, req>>
       ELSE \E resp \in ReachableResponses :
            /\ queries' = Append(queries, <<trigger_light_ids[t], resp>>)
            /\ req' = <<"GET", trigger_light_ids[t]>>
            /\ IF ~Raises(resp) /\ Truthy(resp)
               THEN Return(TRUE) /\ UNCHANGED t
               ELSE /\ t' = t + 1
                    /\ UNCHANGED <<on, constructed, any_reachable, pc, probes>>
    /\ UNCHANGED <<extVars, config, logVars, l, i, arg_on, backoffs, callVars, log, iterVars>>

(* ---- lights_reachable: one pass of the for loop ------------------------ *)
lights_reachable ==
    /\ pc = "lights_reachable"
    /\ IF t > Len(trigger_light_ids)
       THEN /\ Return(FALSE)
            /\ UNCHANGED <<probeVars, req>>
       ELSE \E resp \in ReachableResponses :
            /\ queries' = Append(queries, <<trigger_light_ids[t], resp>>)
            /\ req' = <<"GET", trigger_light_ids[t]>>
            /\ IF Raises(resp)
               THEN Return(FALSE) /\ UNCHANGED t
               ELSE IF Truthy(resp)
                    THEN Return(TRUE) /\ UNCHANGED t
                    ELSE /\ t' = t + 1
                         /\ UNCHANGED <<on, constructed, any_reachable, pc, probes>>
    /\ UNCHANGED <<extVars, config, logVars, l, i, arg_on, backoffs, callVars, log, iterVars>>

(* ---- run(): the log line before the loop ------------------------------- *)
run_start ==
    /\ pc = "run"
    /\ pc' = "sleep"
    /\ t' = 1
    /\ queries' = <<>>
    /\ UNCHANGED <<extVars, probes, req, config, on, logVars, constructed, any_reachable,
                   l, i, arg_on, backoffs, callVars, log, iterVars>>

(* variant: the two delays exchanged *)
PollDelay_swapped(state) == IF state THEN OffPollDelay ELSE OnPollDelay

(* ---- run(): top of the while loop, the sleep and the call of the probe - *)
PollDelay(state) == IF state THEN OnPollDelay ELSE OffPollDelay

run_sleep ==
    /\ pc = "sleep"
    /\ poll_wait' = PollDelay(on)
    /\ start_on' = on
    /\ prev' = IF ended
               THEN <<[start_on |-> start_on, probe |-> any_reachable]>>
               ELSE prev
    /\ ended' = FALSE
    /\ log' = <<>>
    /\ t' = 1
    /\ queries' = <<>>
    /\ pc' = "lights_reachable"
    /\ probes' = 0
    /\ req' = <<>>
    /\ UNCHANGED <<extVars, config, on, logVars, constructed, any_reachable,
                   l, i, arg_on, backoffs, callVars>>

(* variant: the branches do not look at self.on *)
Transition_unguarded(reachable, state) == IF reachable THEN "on" ELSE "off"

(* ---- run(): the comparison of the probe with self.on ------------------- *)
Transition(reachable, state) ==
    IF reachable
    THEN (IF ~state THEN "on" ELSE "none")
    ELSE (IF state THEN "off" ELSE "none")

(* variant: toggle_light is given self.on instead of the probe's value *)
run_compare_current ==
    /\ pc = "compare"
    /\ IF Transition(any_reachable, on) = "none"
       THEN /\ pc' = "sleep"
            /\ ended' = TRUE
            /\ UNCHANGED arg_on
       ELSE /\ pc' = "enter"
            /\ arg_on' = on
            /\ UNCHANGED ended
    /\ t' = 1
    /\ queries' = <<>>
    /\ UNCHANGED <<extVars, probes, req, config, on, logVars, constructed, any_reachable,
                   l, i, backoffs, callVars, log, start_on, poll_wait, prev>>

run_compare ==
    /\ pc = "compare"
    /\ IF Transition(any_reachable, on) = "none"
       THEN /\ pc' = "sleep"
            /\ ended' = TRUE
            /\ UNCHANGED arg_on
       ELSE /\ pc' = "enter"
            /\ arg_on' = (Transition(any_reachable, on) = "on")
            /\ UNCHANGED ended
    /\ t' = 1
    /\ queries' = <<>>
    /\ UNCHANGED <<extVars, probes, req, config, on, logVars, constructed, any_reachable,
                   l, i, backoffs, callVars, log, start_on, poll_wait, prev>>

(* ---- LoggingContext.__enter__ (level = DEBUG, no handler) -------------- *)
LoggingContext_enter ==
    /\ pc = "enter"
    /\ old_level' = level
    /\ level' = DEBUG
    /\ l' = 1
    /\ pc' = "for"
    /\ UNCHANGED <<extVars, probes, req, config, on, constructed, probeVars, any_reachable,
                   i, arg_on, backoffs, callVars, log, iterVars>>

(* ---- LoggingContext.__exit__ ------------------------------------------- *)
LoggingContext_exit ==
    /\ pc = "exit"
    /\ level' = old_level
    /\ old_level' = NOTSET
    /\ pc' = "sleep"
    /\ ended' = TRUE
    /\ UNCHANGED <<extVars, probes, req, config, on, constructed, probeVars, any_reachable,
                   l, i, arg_on, backoffs, callVars, log, start_on, poll_wait, prev>>

(* variant: a light that exhausted its attempts ends the for loop *)
run_for_abort ==
    /\ pc = "for"
    /\ IF l > Len(target_light_ids) \/ (log # <<>> /\ log[Len(log)].result = "fail")
       THEN /\ pc' = "exit"
            /\ l' = 1
            /\ arg_on' = FALSE
       ELSE /\ pc' = "exp_backoff"
            /\ UNCHANGED <<l, arg_on>>
    /\ i' = 0
    /\ backoffs' = <<>>
    /\ put_resp' = "none"
    /\ settled' = FALSE
    /\ get_resp' = "none"
    /\ UNCHANGED <<extVars, probes, req, config, on, logVars, constructed, probeVars, any_reachable,
                   log, iterVars>>

(* ---- run(): for light in self.target_light_ids ------------------------- *)
run_for ==
    /\ pc = "for"
    /\ IF l > Len(target_light_ids)
       THEN /\ pc' = "exit"
            /\ l' = 1
            /\ arg_on' = FALSE
       ELSE /\ pc' = "exp_backoff"
            /\ UNCHANGED <<l, arg_on>>
    /\ i' = 0
    /\ backoffs' = <<>>
    /\ put_resp' = "none"
    /\ settled' = FALSE
    /\ get_resp' = "none"
    /\ UNCHANGED <<extVars, probes, req, config, on, logVars, constructed, probeVars, any_reachable,
                   log, iterVars>>

(* variant: range(tries + 1) *)
exp_backoff_offbyone ==
    /\ pc = "exp_backoff"
    /\ IF i <= Tries
       THEN /\ pc' = "put"
            /\ UNCHANGED l
       ELSE /\ pc' = "for"
            /\ l' = l + 1
    /\ put_resp' = "none"
    /\ settled' = FALSE
    /\ get_resp' = "none"
    /\ UNCHANGED <<extVars, probes, req, config, on, logVars, constructed, probeVars, any_reachable,
                   i, arg_on, backoffs, log, iterVars>>

(* ---- exp_backoff: for i in range(tries) -------------------------------- *)
exp_backoff ==
    /\ pc = "exp_backoff"
    /\ IF i < Tries
       THEN /\ pc' = "put"
            /\ UNCHANGED l
       ELSE /\ pc' = "for"
            /\ l' = l + 1
    /\ put_resp' = "none"
    /\ settled' = FALSE
    /\ get_resp' = "none"
    /\ UNCHANGED <<extVars, probes, req, config, on, logVars, constructed, probeVars, any_reachable,
                   i, arg_on, backoffs, log, iterVars>>

(* variant: 2 ** i *)
Backoff_exp(n) == 2 ^ n

(* ---- exp_backoff: except Exception ------------------------------------- *)
Backoff(n) == n * n

(* variant: the failure of the last attempt is raised to the caller *)
exp_backoff_reraise ==
    /\ pc = "except"
    /\ backoffs' = Append(backoffs, i * i)
    /\ i' = i + 1
    /\ pc' = IF i = Tries - 1 THEN "raised" ELSE "exp_backoff"
    /\ UNCHANGED <<extVars, probes, req, config, on, logVars, constructed, probeVars, any_reachable,
                   l, arg_on, callVars, log, iterVars>>

exp_backoff_except ==
    /\ pc = "except"
    /\ backoffs' = Append(backoffs, Backoff(i))
    /\ i' = i + 1
    /\ pc' = "exp_backoff"
    /\ UNCHANGED <<extVars, probes, req, config, on, logVars, constructed, probeVars, any_reachable,
                   l, arg_on, callVars, log, iterVars>>

(* ---- exp_backoff: else: break ------------------------------------------ *)
exp_backoff_else ==
    /\ pc = "else"
    /\ pc' = "for"
    /\ l' = l + 1
    /\ UNCHANGED <<extVars, probes, req, config, on, logVars, constructed, probeVars, any_reachable,
                   i, arg_on, backoffs, callVars, log, iterVars>>

(* ---- toggle_light: the PUT and raise_for_status ------------------------ *)
(* variant: the for loop of run() walks the trigger list *)
Call_trigger(result) ==
    [pos |-> l,
     light |-> IF l <= Len(trigger_light_ids)
               THEN trigger_light_ids[l] ELSE target_light_ids[l],
     on |-> arg_on, try |-> i, result |-> result]

Call(result) ==
    [pos |-> l, light |-> target_light_ids[l], on |-> arg_on, try |-> i,
     result |-> result]

(* variant: no settle sleep between the PUT and the GET *)
toggle_light_put_nosettle ==
    /\ pc = "put"
    /\ \E resp \in PutResponses :
        /\ put_resp' = resp
        /\ IF resp = "error"
           THEN /\ log' = Append(log, Call("fail"))
                /\ pc' = "except"
           ELSE /\ log' = Append(log, Call("pending"))
                /\ pc' = "get"
    /\ prev' = <<>>
    /\ req' = <<"PUT", target_light_ids[l]>>
    /\ UNCHANGED <<extVars, probes, config, on, logVars, constructed, probeVars, any_reachable,
                   l, i, arg_on, backoffs, settled, get_resp,
                   start_on, poll_wait, ended>>

toggle_light_put ==
    /\ pc = "put"
    /\ \E resp \in PutResponses :
        /\ put_resp' = resp
        /\ IF resp = "error"
           THEN /\ log' = Append(log, Call("fail"))
                /\ pc' = "except"
           ELSE /\ log' = Append(log, Call("pending"))
                /\ pc' = "settle"
    /\ prev' = <<>>
    /\ req' = <<"PUT", target_light_ids[l]>>
    /\ UNCHANGED <<extVars, probes, config, on, logVars, constructed, probeVars, any_reachable,
                   l, i, arg_on, backoffs, settled, get_resp,
                   start_on, poll_wait, ended>>

(* ---- toggle_light: time.sleep(30) -------------------------------------- *)
toggle_light_sleep ==
    /\ pc = "settle"
    /\ settled' = TRUE
    /\ pc' = "get"
    /\ UNCHANGED <<extVars, probes, req, config, on, logVars, constructed, probeVars, any_reachable,
                   l, i, arg_on, backoffs, put_resp, get_resp, log, iterVars>>

(* ---- toggle_light: the GET, the assert and self.on = on ---------------- *)
(* variant: the assert is not evaluated *)
Matches_noassert(resp, want) == TRUE

Matches(resp, want) == (resp = "on" /\ want) \/ (resp = "off" /\ ~want)

SetResult(s, result) == [s EXCEPT ![Len(s)].result = result]

(* variant: self.on is assigned before the assert *)
toggle_light_get_early ==
    /\ pc = "get"
    /\ \E resp \in VerifyResponses :
        /\ get_resp' = resp
        /\ IF resp # "error" /\ Matches(resp, arg_on)
           THEN /\ on' = arg_on
                /\ log' = SetResult(log, "ok")
                /\ pc' = "else"
           ELSE /\ log' = SetResult(log, "fail")
                /\ pc' = "except"
                /\ on' = IF resp # "error" THEN arg_on ELSE on
    /\ req' = <<"GET", target_light_ids[l]>>
    /\ UNCHANGED <<extVars, probes, config, logVars, constructed, probeVars, any_reachable,
                   l, i, arg_on, backoffs, put_resp, settled, iterVars>>

toggle_light_get ==
    /\ pc = "get"
    /\ \E resp \in VerifyResponses :
        /\ get_resp' = resp
        /\ IF resp # "error" /\ Matches(resp, arg_on)
           THEN /\ on' = arg_on
                /\ log' = SetResult(log, "ok")
                /\ pc' = "else"
           ELSE /\ log' = SetResult(log, "fail")
                /\ pc' = "except"
                /\ UNCHANGED on
    /\ req' = <<"GET", target_light_ids[l]>>
    /\ UNCHANGED <<extVars, probes, config, logVars, constructed, probeVars, any_reachable,
                   l, i, arg_on, backoffs, put_resp, settled, iterVars>>

(* ---- the program -------------------------------------------------------- *)
(* the tasks of ScopeSpec hold no LoggingContext while the program runs *)
NoContexts == <<>>

Init ==
    /\ trigger_light_ids \in SeqsUpTo(Lights, MaxTriggers)
    /\ target_light_ids \in SeqsUpTo(Lights, MaxTargets)
    /\ on \in BOOLEAN            \* not yet assigned: __init__ assigns it
    /\ level = INFO              \* logging.basicConfig(level=logging.INFO)
    /\ old_level = NOTSET
    /\ pc = "lights_reachable"   \* __init__ calls self.lights_reachable()
    /\ constructed = FALSE
    /\ t = 1
    /\ queries = <<>>
    /\ any_reachable = FALSE
    /\ l = 1
    /\ i = 0
    /\ arg_on = FALSE
    /\ backoffs = <<>>
    /\ put_resp = "none"
    /\ settled = FALSE
    /\ get_resp = "none"
    /\ log = <<>>
    /\ start_on = FALSE
    /\ poll_wait = 0
    /\ ended = FALSE
    /\ prev = <<>>
    /\ probes = 0
    /\ req = <<>>
    /\ switch = 1               \* the first entry of config["dumbSwitches"]
    /\ ctx = NoContexts
    /\ handlers = {}
    /\ closed = {}

Next ==
    \/ lights_reachable
    \/ run_start
    \/ run_sleep
    \/ run_compare
    \/ LoggingContext_enter
    \/ LoggingContext_exit
    \/ run_for
    \/ exp_backoff
    \/ exp_backoff_except
    \/ exp_backoff_else
    \/ toggle_light_put
    \/ toggle_light_sleep
    \/ toggle_light_get

Spec == Init /\ [][Next]_vars

FairSpec == Spec /\ WF_vars(Next)

(* ======================================================================= *)
(* LoggingContext on its own: NumTasks tasks, each constructing one        *)
(* LoggingContext on logging.root with any arguments and running one with  *)
(* block whose body ends normally or raises; the tasks' steps interleave.  *)
(* ======================================================================= *)
Tasks == 1..NumTasks

LevelArgs == {NoLevel, DEBUG, INFO}

progVars == <<config, on, old_level, pc, constructed, probeVars, any_reachable,
              l, i, arg_on, backoffs, callVars, log, iterVars, probes, req, switch>>

NewContext ==
    [pc |-> "new", level |-> NoLevel, handler |-> FALSE, close |-> TRUE,
     old_level |-> NOTSET, entry |-> NOTSET, left |-> NOTSET,
     exc |-> FALSE, propagated |-> FALSE]

(* ---- LoggingContext.__init__ (the handler of task k is the object k) --- *)
scope_init(k) ==
    /\ ctx[k].pc = "new"
    /\ \E lv \in LevelArgs, h \in BOOLEAN, c \in BOOLEAN :
        ctx' = [ctx EXCEPT ![k].pc = "ready", ![k].level = lv,
                           ![k].handler = h, ![k].close = c]
    /\ UNCHANGED <<level, handlers, closed, progVars>>

(* ---- LoggingContext.__enter__ ------------------------------------------ *)
scope_enter(k) ==
    /\ ctx[k].pc = "ready"
    /\ IF ctx[k].level # NoLevel
       THEN /\ level' = ctx[k].level
            /\ ctx' = [ctx EXCEPT ![k].pc = "body", ![k].entry = level,
                                  ![k].old_level = level]
       ELSE /\ ctx' = [ctx EXCEPT ![k].pc = "body", ![k].entry = level]
            /\ UNCHANGED level
    /\ handlers' = IF ctx[k].handler THEN handlers \cup {k} ELSE handlers
    /\ UNCHANGED <<closed, progVars>>

(* ---- the body of the with block: it ends normally or raises ------------ *)
scope_body(k) ==
    /\ ctx[k].pc = "body"
    /\ \E raised \in BOOLEAN :
        ctx' = [ctx EXCEPT ![k].pc = "leaving", ![k].exc = raised]
    /\ UNCHANGED <<level, handlers, closed, progVars>>

(* variant: the restore is skipped when the body raised *)
scope_exit_normal_only(k) ==
    /\ ctx[k].pc = "leaving"
    /\ level' = IF ctx[k].level # NoLevel /\ ~ctx[k].exc
                THEN ctx[k].old_level ELSE level
    /\ handlers' = IF ctx[k].handler /\ ~ctx[k].exc
                   THEN handlers \ {k} ELSE handlers
    /\ closed' = IF ctx[k].handler /\ ctx[k].close /\ ~ctx[k].exc
                 THEN closed \cup {k} ELSE closed
    /\ ctx' = [ctx EXCEPT ![k].pc = "done", ![k].left = level',
                          ![k].propagated = ctx[k].exc]
    /\ UNCHANGED progVars

(* ---- LoggingContext.__exit__: it returns None, the exception goes on --- *)
scope_exit(k) ==
    /\ ctx[k].pc = "leaving"
    /\ level' = IF ctx[k].level # NoLevel THEN ctx[k].old_level ELSE level
    /\ handlers' = IF ctx[k].handler THEN handlers \ {k} ELSE handlers
    /\ closed' = IF ctx[k].handler /\ ctx[k].close
                 THEN closed \cup {k} ELSE closed
    /\ ctx' = [ctx EXCEPT ![k].pc = "done", ![k].left = level',
                          ![k].propagated = ctx[k].exc]
    /\ UNCHANGED progVars

ScopeInit ==
    /\ trigger_light_ids = <<>>
    /\ target_light_ids = <<>>
    /\ on = FALSE
    /\ level = INFO              \* logging.basicConfig(level=logging.INFO)
    /\ old_level = NOTSET
    /\ pc = "scopes"
    /\ constructed = FALSE
    /\ t = 1
    /\ queries = <<>>
    /\ any_reachable = FALSE
    /\ l = 1
    /\ i = 0
    /\ arg_on = FALSE
    /\ backoffs = <<>>
    /\ put_resp = "none"
    /\ settled = FALSE
    /\ get_resp = "none"
    /\ log = <<>>
    /\ start_on = FALSE
    /\ poll_wait = 0
    /\ ended = FALSE
    /\ prev = <<>>
    /\ probes = 0
    /\ req = <<>>
    /\ switch = 1
    /\ ctx = [k \in Tasks |-> NewContext]
    /\ handlers = {}
    /\ closed = {}

ScopeNext ==
    \E k \in Tasks :
        \/ scope_init(k)
        \/ scope_enter(k)
        \/ scope_body(k)
        \/ scope_exit(k)

ScopeSpec == ScopeInit /\ [][ScopeNext]_vars

TypeOK ==
    /\ on \in BOOLEAN
    /\ any_reachable \in BOOLEAN
    /\ pc \in {"lights_reachable", "run", "sleep", "compare", "enter", "for",
               "exp_backoff", "put", "settle", "get", "except", "else", "exit",
               "raised"}
    /\ level \in {INFO, DEBUG}
    /\ i \in 0..Tries
(* ======================================================================= *)
(* Properties                                                               *)
(* ======================================================================= *)

Last(s) == s[Len(s)]

(* the toggle_light calls made for the target at position p of the list *)
CallsOf(p) == SelectSeq(log, LAMBDA c : c.pos = p)

(* a trigger that answered without error and reported not reachable *)
Clean(q) == ~Raises(q[2]) /\ ~Truthy(q[2])

(* some query reported reachable and every query before it was clean *)
Expected(qs) ==
    \E k \in 1..Len(qs) :
        /\ Truthy(qs[k][2])
        /\ \A j \in 1..(k - 1) : Clean(qs[j])

(* the exp_backoff call for the target at position p has returned *)
Returned(p) ==
    \/ pc = "exit"
    \/ pc \in {"for", "exp_backoff", "put", "settle", "get", "except", "else"} /\ p < l

(* C1: at the end of every iteration of run() the SwitchState equals the   *)
(* value returned by that iteration's probe, whether or not any write      *)
(* succeeded.                                                              *)
C1_StateEqualsProbe == ended => (on = any_reachable)

(* C2: lights_reachable scans the triggers in configured order, returns    *)
(* true iff some trigger reports reachable and every trigger before it     *)
(* answered without error and reported not reachable; an error or a        *)
(* reachable trigger ends the scan, no later trigger is queried.           *)
ProbeReturned == pc \in {"run", "compare"}

ProbeResult == IF pc = "run" THEN on ELSE any_reachable

C2_ProbeFailFast ==
    ProbeReturned =>
        /\ Len(queries) <= Len(trigger_light_ids)
        /\ \A k \in 1..Len(queries) : queries[k][1] = trigger_light_ids[k]
        /\ \A k \in 1..(Len(queries) - 1) : Clean(queries[k])
        /\ Len(queries) < Len(trigger_light_ids) =>
               /\ queries # <<>>
               /\ ~Clean(Last(queries))
        /\ ProbeResult <=> Expected(queries)
        /\ (queries # <<>> /\ Raises(Last(queries)[2])) => ~ProbeResult

C2_Witness ==
    /\ pc = "compare"
    /\ trigger_light_ids = <<1, 2>>
    /\ Len(queries) = 1
    /\ queries[1] = <<1, "error">>
    /\ ~any_reachable

(* C3: exp_backoff calls f exactly k+1 times when f fails k times and then *)
(* succeeds (k < Tries), exactly Tries times when f always fails, returns  *)
(* normally in both cases and never calls f again after a success.          *)
C3_RetryCount ==
    /\ pc # "raised"
    /\ \A p \in 1..Len(target_light_ids) :
        LET c == CallsOf(p) IN
        /\ Len(c) <= Tries
        /\ \A k \in 1..Len(c) : c[k].try = k - 1
        /\ \A k \in 1..(Len(c) - 1) : c[k].result = "fail"
        /\ Returned(p) =>
               /\ Len(c) >= 1
               /\ Last(c).result \in {"ok", "fail"}
               /\ Last(c).result = "fail" => Len(c) = Tries

C3_Witness ==
    /\ pc = "for"
    /\ l = 3
    /\ Len(CallsOf(1)) = Tries
    /\ Last(CallsOf(1)).result = "fail"
    /\ Len(CallsOf(2)) = 2
    /\ Last(CallsOf(2)).result = "ok"
(* C4: in a transition run() handles the target lights in configured       *)
(* order, once each: every light gets between 1 and Tries attempts, the    *)
(* attempts on a light stop at its first verified success, all attempts on *)
(* one light precede those on the next, and a light that exhausts its      *)
(* attempts does not keep the remaining lights from being attempted.       *)
C4_OneSequencePerTarget ==
    (pc = "exit") =>
        /\ start_on # any_reachable
        /\ \A a, b \in 1..Len(log) : a < b => log[a].pos <= log[b].pos
        /\ \A k \in 1..Len(log) :
            /\ log[k].pos \in 1..Len(target_light_ids)
            /\ log[k].light = target_light_ids[log[k].pos]
        /\ \A p \in 1..Len(target_light_ids) :
            LET c == CallsOf(p) IN
            /\ Len(c) \in 1..Tries
            /\ \A k \in 1..Len(c) : c[k].try = k - 1
            /\ \A k \in 1..(Len(c) - 1) : c[k].result = "fail"
            /\ Len(c) < Tries => Last(c).result = "ok"

C4_Witness ==
    /\ pc = "exit"
    /\ target_light_ids = <<2, 1>>
    /\ Len(log) = Tries + 1
    /\ \A k \in 1..Tries : log[k].light = 2 /\ log[k].result = "fail"
    /\ log[Tries + 1].light = 1
    /\ log[Tries + 1].result = "ok"

(* C5: in an iteration whose probe equals the SwitchState no state-write   *)
(* request is issued and the SwitchState is left unchanged.                *)
C5_NoChangeNoWrite ==
    (ended /\ start_on = any_reachable) => (log = <<>> /\ on = start_on)

C5_Witness ==
    /\ ended
    /\ start_on
    /\ any_reachable
    /\ target_light_ids # <<>>
    /\ poll_wait = OnPollDelay

(* C6: starting from OFF, when two consecutive iterations both probe true  *)
(* the target writes are issued only in the first of the two, whatever the *)
(* write outcomes of the first; symmetrically from ON with false probes.   *)
(* Stated where a write is issued: toggle_light is never at its PUT in an   *)
(* iteration whose probe repeats the probe of a transition made by the     *)
(* iteration before it.                                                    *)
C6_Idempotent ==
    ~(/\ pc = "put"
      /\ prev # <<>>
      /\ prev[1].start_on # prev[1].probe
      /\ any_reachable = prev[1].probe)

(* C7: a toggle_light call fails (and exp_backoff handles it as a failed   *)
(* attempt) when the PUT errors, then without settle wait and without      *)
(* verification read, when the verification read errors, or when it        *)
(* reports a value other than the desired one; it succeeds only when the   *)
(* PUT succeeded and the verification read reports the desired value.      *)
InCall == pc \in {"settle", "get", "except", "else"}

Verified == get_resp = (IF arg_on THEN "on" ELSE "off")

C7_ToggleOutcome ==
    InCall =>
        /\ put_resp = "error" =>
               /\ pc = "except"
               /\ ~settled
               /\ get_resp = "none"
        /\ (get_resp # "none" /\ ~Verified) => pc = "except"
        /\ pc = "except" => Last(log).result = "fail"
        /\ pc = "else" =>
               /\ put_resp = "ok"
               /\ settled
               /\ Verified
               /\ Last(log).result = "ok"
               /\ on = arg_on
        /\ pc = "get" => (put_resp = "ok" /\ settled)

C7_Witness ==
    /\ pc = "except"
    /\ put_resp = "ok"
    /\ settled
    /\ arg_on
    /\ get_resp = "off"
    /\ Last(log).result = "fail"

(* C8: within one exp_backoff call there is no wait before the first       *)
(* attempt and the wait before attempt i (i >= 1, numbered from 0) is      *)
(* (i-1)^2; i starts again at 0 for every call, so the waits for one light *)
(* do not depend on the failures of earlier lights.                        *)
C8_BackoffWaits ==
    (pc = "put") =>
        /\ Len(backoffs) = i
        /\ \A k \in 1..i : backoffs[k] = (k - 1) * (k - 1)
        /\ Len(CallsOf(l)) = i

C8_Witness ==
    /\ pc = "put"
    /\ l = 2
    /\ i = 2
    /\ backoffs = <<0, 1>>
    /\ Len(CallsOf(1)) = Tries
    /\ Last(CallsOf(1)).result = "fail"
(* C9: no hub failure (an error of a probe GET, of a PUT, of a             *)
(* verification GET, a verification mismatch, the exhaustion of the        *)
(* retries) makes run() return or raise: after every such failure the loop *)
(* goes on and another probe is performed. Checked under FairSpec: the one *)
(* sequential thread keeps taking steps (every request is answered or      *)
(* errors, every sleep ends).                                              *)
HubFailure ==
    \/ pc = "except"
    \/ /\ ProbeReturned
       /\ queries # <<>>
       /\ Raises(Last(queries)[2])

Probing == constructed /\ pc = "lights_reachable"

C9_LoopContinues == HubFailure ~> Probing

C9_Witness ==
    /\ pc = "sleep"
    /\ ended
    /\ Len(target_light_ids) >= 2
    /\ Len(log) = Tries * Len(target_light_ids)
    /\ \A k \in 1..Len(log) : log[k].result = "fail"

(* C10: the SwitchState after construction is the result of one probe made *)
(* by __init__, with the fail-fast-to-false rule of every probe (a hub     *)
(* error gives OFF, not a failed construction), and __init__ issues no     *)
(* state-write request.                                                    *)
C10_InitialProbe ==
    /\ (~constructed) =>
           /\ pc = "lights_reachable"
           /\ log = <<>>
           /\ put_resp = "none"
    /\ (pc = "run") =>
           /\ constructed
           /\ on <=> Expected(queries)
           /\ (\E k \in 1..Len(queries) : Raises(queries[k][2])) => ~on
           /\ log = <<>>
           /\ put_resp = "none"
           /\ get_resp = "none"

C10_Witness ==
    /\ pc = "run"
    /\ queries # <<>>
    /\ Raises(Last(queries)[2])
    /\ ~on
(* C11: with two or more configured switches every switch gets its         *)
(* Reconciler and every Reconciler runs its polling loop: each switch's    *)
(* Reconciler eventually probes, none waits for another one's loop to end. *)
(* switch is the entry of dumbSwitches whose _run_shims call is running;   *)
(* the for loop of __main__ moves on only when that call returns.          *)
C11_EverySwitchProbes ==
    \A s \in 1..NumSwitches : <>(switch = s /\ Probing)

(* C12: in every iteration of run() the wait before the probe is 30 when   *)
(* the SwitchState at the start of the iteration is ON and 5 when it is    *)
(* OFF, and exactly one probe follows each wait.                           *)
InIteration == constructed /\ pc # "run" /\ (pc = "sleep" => ended)

C12_PollWait ==
    InIteration =>
        /\ poll_wait = (IF start_on THEN 30 ELSE 5)
        /\ probes = (IF pc = "lights_reachable" THEN 0 ELSE 1)

C12_Witness ==
    /\ ended
    /\ start_on
    /\ poll_wait = 30
    /\ probes = 1
    /\ log # <<>>
(* C13: a LoggingContext restores, on normal and on exceptional exit, the  *)
(* logger level that was in effect at its entry, detaches the handler it   *)
(* attached and closes it unless close is false, and an exception raised   *)
(* in the scope still propagates out of it.                                *)
C13_ScopeRestores ==
    \A k \in Tasks :
        /\ (ctx[k].pc \in {"body", "leaving"} /\ ctx[k].handler) => k \in handlers
        /\ ctx[k].pc = "done" =>
            /\ ctx[k].level # NoLevel => ctx[k].left = ctx[k].entry
            /\ k \notin handlers
            /\ k \in closed <=> (ctx[k].handler /\ ctx[k].close)
            /\ ctx[k].propagated <=> ctx[k].exc

C13_Witness ==
    \E k \in Tasks :
        /\ ctx[k].pc = "done"
        /\ ctx[k].level = DEBUG
        /\ ctx[k].entry = INFO
        /\ ctx[k].left = INFO
        /\ ctx[k].handler
        /\ ctx[k].exc
        /\ k \in closed

(* the part of C13 about run(): outside a transition the level of          *)
(* logging.root is the one set before the loop started                     *)
RunLevelRestored ==
    (pc \notin {"for", "exp_backoff", "put", "settle", "get", "except", "else", "exit"})
        => (level = INFO /\ old_level = NOTSET)
(* C14: within one Reconciler operations never overlap: after a PUT that   *)
(* succeeded come the settle wait and then the verification GET of the     *)
(* same light, with no request for another light and no probe in between;  *)
(* the probe of the next cycle starts only after the last attempt on the   *)
(* last target light has finished.                                         *)
Range(f) == {f[x] : x \in DOMAIN f}

C14_Sequential ==
    /\ \A k \in 1..Len(log) :
        log[k].result = "pending" => (k = Len(log) /\ pc \in {"settle", "get"})
    /\ pc \in {"settle", "get"} =>
        /\ put_resp = "ok"
        /\ Last(log).result = "pending"
        /\ req = <<"PUT", Last(log).light>>
    /\ pc = "get" => settled
    /\ (InCall /\ get_resp # "none") =>
        /\ put_resp = "ok"
        /\ settled
        /\ req = <<"GET", Last(log).light>>
    /\ pc = "lights_reachable" =>
        /\ log = <<>>
        /\ req # <<>> => (req[1] = "GET" /\ req[2] \in Range(trigger_light_ids))
    /\ (ended /\ log # <<>>) =>
        /\ Last(log).pos = Len(target_light_ids)
        /\ Last(log).result \in {"ok", "fail"}
        /\ Last(log).result = "fail" => Last(log).try = Tries - 1

C14_Witness ==
    /\ pc = "else"
    /\ target_light_ids = <<1, 2>>
    /\ l = 2
    /\ settled
    /\ req = <<"GET", 2>>
    /\ Len(CallsOf(1)) = Tries

(* C15: every state-write request of an iteration carries the value of     *)
(* that iteration's probe, never the value the SwitchState had at the      *)
(* start of the iteration.                                                 *)
C15_WriteValue ==
    /\ \A k \in 1..Len(log) :
        /\ log[k].on = any_reachable
        /\ log[k].on # start_on
    /\ pc = "put" => (arg_on = any_reachable /\ arg_on # start_on)

C15_Witness ==
    /\ log # <<>>
    /\ start_on
    /\ ~any_reachable
    /\ Last(log).on = FALSE
    /\ Last(log).result = "ok"

(* C16: exp_backoff waits only between attempts: every wait is followed by *)
(* another call of f, so a call that returns has slept one time less than  *)
(* it has called f (after 3 failures the waits are 0 and 1).               *)
C16_WaitsOnlyBetween ==
    (pc = "for" /\ l > 1) => (Len(backoffs) = Len(CallsOf(l - 1)) - 1)

(* C17: state-write requests are issued only for lights of the target      *)
(* list: a trigger light that is not a target is only queried, never       *)
(* written.                                                                *)
C17_OnlyTargetsWritten ==
    /\ \A k \in 1..Len(log) : log[k].light \in Range(target_light_ids)
    /\ (req # <<>> /\ req[1] = "PUT") => req[2] \in Range(target_light_ids)
    /\ \A k \in 1..Len(queries) : queries[k][1] \in Range(trigger_light_ids)
    /\ \A x \in Range(trigger_light_ids) \ Range(target_light_ids) :
        /\ \A k \in 1..Len(log) : log[k].light # x
        /\ (req # <<>> /\ req[2] = x) => req[1] = "GET"

C17_Witness ==
    /\ trigger_light_ids = <<1>>
    /\ target_light_ids = <<2>>
    /\ Len(log) = 2
    /\ req = <<"GET", 2>>

(* C18: the SwitchState of a running Reconciler changes to v only at the   *)
(* end of a write attempt whose PUT succeeded and whose verification GET   *)
(* reported on = v; a probe, a failed attempt or the exhaustion of the     *)
(* retries never changes it.                                               *)
C18_ChangeOnlyWhenVerified ==
    [][(constructed /\ on' # on) =>
           /\ pc = "get"
           /\ put_resp = "ok"
           /\ settled
           /\ pc' = "else"
           /\ on' = arg_on
           /\ get_resp' = (IF on' THEN "on" ELSE "off")
           /\ Last(log').result = "ok"]_vars

C18_Witness ==
    /\ pc = "else"
    /\ on # start_on
    /\ on = any_reachable
    /\ Len(log) = 2
    /\ log[1].result = "fail"

====
